---- MODULE Spec2Model ----
(***************************************************************************)
(* Model of bin/user_sync.py: the synchronisation of a locally declared   *)
(* list of users and role memberships with the remote user records of     *)
(* one or more Prisma Cloud tenants.                                       *)
(*                                                                         *)
(* The program state is the three lists main() loads (tenants, roles,     *)
(* users; the Role and User objects are mutated in place), one            *)
(* PrismaCloudApi client per tenant, the position of main() inside each   *)
(* tenant's iteration, and the process exit state.  Each tenant's remote  *)
(* end (its platform role list and its user records) is the environment:  *)
(* it answers every request with a success or an error status.            *)
(***************************************************************************)
EXTENDS Integers, Sequences, FiniteSets, TLC

\* Number of Tenant records in tenants.yaml (tenant k is the k-th declared).
NumTenants == 2

Tenants == 1..NumTenants

\* Python's None (Role.id before resolution).
None == "None"

----------------------------------------------------------------------------
(* Dataclasses *)

Role(name, members) ==
    [name |-> name, users |-> members, id |-> None]

User(email) ==
    [email |-> email, firstName |-> "John", lastName |-> "Doe",
     enabled |-> TRUE, roleIds |-> <<>>]

\* `x in list` for a Python list modelled as a sequence.
In(x, list) ==
    \E k \in DOMAIN list : list[k] = x

----------------------------------------------------------------------------
(* Inputs: the contents of roles.yaml and users.yaml, and each tenant's    *)
(* remote end before the run.                                              *)

A == "a@x.com"
B == "b@x.com"
Z == "z@x.com"

\* roles.yaml: declared Roles, in declaration order.
RoleLists ==
    { << Role("Admin", <<A, B>>), Role("Dev", <<B>>) >>,
      << Role("Admin", <<A>>) >>,
      << Role("Dev", <<A>>), Role("Admin", <<A>>) >>,
      << Role("Dev", <<Z>>) >> }

\* users.yaml: declared Users, in declaration order (an email may repeat).
UserLists ==
    { << User(A), User(B) >>,
      << User(A), User(A) >>,
      << User(B) >>,
      << User(A), User(B), User(A) >> }

\* What GET /user/role/name of a tenant answers: the same role names carry
\* different ids in different tenants; a name may be missing or repeated.
PlatformRoleLists ==
    { << [name |-> "Admin", id |-> "r1"], [name |-> "Dev", id |-> "r2"] >>,
      << [name |-> "Dev", id |-> "r1"], [name |-> "Admin", id |-> "r3"] >>,
      << [name |-> "Admin", id |-> "r4"], [name |-> "Admin", id |-> "r5"],
         [name |-> "Dev", id |-> "r2"] >>,
      << [name |-> "Admin", id |-> "r6"] >> }

\* A user record as a tenant holds it before the run.
RemoteUser(email) ==
    [email |-> email, firstName |-> "Old", lastName |-> "Name",
     enabled |-> FALSE, roleIds |-> <<"r0">>]

\* A tenant without user records.
NoRemoteUsers ==
    [e \in {} |-> RemoteUser(e)]

\* A tenant's user records before the run, keyed by email.
RemoteUserSets ==
    { NoRemoteUsers,
      [e \in {A, Z} |-> RemoteUser(e)] }

VARIABLES
    roles,               \* main: roles (list[Role], mutated in place)
    users,               \* main: users (list[User], mutated in place)
    platform_roles,      \* remote: each tenant's platform role list
    remote_users,        \* remote: each tenant's user records, by email
    api,                 \* main: the PrismaCloudApi client of each tenant
    pc,                  \* position of main inside each tenant's iteration
    exc,                 \* the exception that ended a tenant's iteration
    prisma_cloud_users,  \* sync_users_with_tenant: the fetched user list
    i,                   \* sync_users_with_tenant: users the loop has taken
    log,                 \* history: every API method invocation, in order
    remote_users_before, \* history: remote_users before the run
    exit                 \* process exit state

vars ==
    << roles, users, platform_roles, remote_users, api, pc, exc,
       prisma_cloud_users, i, log, remote_users_before, exit >>

----------------------------------------------------------------------------
(* PrismaCloudApi *)

\* A client before __init__ has run for the tenant.
NoApi ==
    [url |-> 0, headers |-> [n \in {} |-> ""]]

\* PrismaCloudApi.__init__ (url stands for the tenant's endpoint and keys).
PrismaCloudApi(t) ==
    [url |-> t, headers |-> [n \in {"Content-Type"} |-> "application/json"]]

is_authenticated(a) ==
    "x-redlock-auth" \in DOMAIN a.headers

set_header(a, name, value) ==
    [a EXCEPT !.headers =
        [n \in DOMAIN a.headers \cup {name} |->
            IF n = name THEN value ELSE a.headers[n]]]

\* response.raise_for_status(): raises on a 4xx or 5xx status.
raise_for_status(status) ==
    status >= 400

\* The token a tenant's POST /login answers with.
Token(t) ==
    <<"token", t>>

\* login() with the header set before raise_for_status() is called.
login_header_first(a, status) ==
    set_header(a, "x-redlock-auth", Token(a.url))

\* login() storing the token under a header is_authenticated does not read.
login_other_header(a, status) ==
    IF raise_for_status(status)
    THEN a
    ELSE set_header(a, "Authorization", Token(a.url))

\* The client after login() got `status` from POST /login.
login(a, status) ==
    IF raise_for_status(status)
    THEN a
    ELSE set_header(a, "x-redlock-auth", Token(a.url))

\* The statuses a tenant can answer a request carrying the client's headers:
\* a request without the auth header is rejected; one with it is served or
\* fails (500 stands for any 4xx or 5xx answer, an expired token included).
Answers(a) ==
    IF is_authenticated(a) THEN {200, 500} ELSE {401}

\* The statuses a tenant can answer POST /login with (the keys are accepted
\* or rejected).
LoginAnswers ==
    {200, 401}

\* asdict(user) as update_user_v2 sends it.
update_payload(user) ==
    user

\* create_user_v3 sending the default role as the only role.
create_payload_default_role_only(user) ==
    [email |-> user.email, firstName |-> user.firstName,
     lastName |-> user.lastName, enabled |-> user.enabled,
     roleIds |-> <<user.roleIds[1]>>, defaultRoleId |-> user.roleIds[1],
     timeZone |-> "America/Toronto"]

\* asdict(user) plus defaultRoleId and timeZone, as create_user_v3 sends it
\* (user.roleIds is not empty).
create_payload(user) ==
    [email |-> user.email, firstName |-> user.firstName,
     lastName |-> user.lastName, enabled |-> user.enabled,
     roleIds |-> user.roleIds, defaultRoleId |-> user.roleIds[1],
     timeZone |-> "America/Toronto"]

\* The request sent as a PATCH: the role ids of the payload are added to
\* those of the record.
store_user_merged(records, email, payload) ==
    [e \in DOMAIN records \cup {email} |->
        IF e # email
        THEN records[e]
        ELSE IF email \in DOMAIN records
             THEN [payload EXCEPT
                      !.roleIds = records[email].roleIds \o payload.roleIds]
             ELSE payload]

\* The tenant replaced its user collection by the written record.
store_user_only(records, email, payload) ==
    [e \in {email} |-> payload]

\* A tenant's records after it accepted POST /v3/user or
\* PUT /v2/user/{email} with `payload`: the record of that email is the payload.
store_user(records, email, payload) ==
    [e \in DOMAIN records \cup {email} |->
        IF e = email THEN payload ELSE records[e]]

\* One entry of the history of API method invocations by client `a`.  sent: a
\* request was issued; auth: is_authenticated when the method was entered.
Call(a, op, user, sent, status) ==
    [tenant |-> a.url, op |-> op, user |-> user, sent |-> sent,
     status |-> status, auth |-> is_authenticated(a)]

\* The user of an invocation that is about no user.
NoUser ==
    [email |-> None, firstName |-> None, lastName |-> None,
     enabled |-> FALSE, roleIds |-> <<>>]

----------------------------------------------------------------------------
(* map_role_ids_to_role *)

\* [item for item in tenant_roles if item['name'] == role.name]
matching_roles(tenant_roles, name) ==
    SelectSeq(tenant_roles, LAMBDA item : item.name = name)

\* The first match taken (`tenant_role = [...][0]`): only an empty list raises.
unpacks_first(matches) ==
    Len(matches) >= 1

\* `tenant_role, = [...]` unpacks a list of exactly one item; any other length
\* raises ValueError.
unpacks(matches) ==
    Len(matches) = 1

\* The id assigned only to a Role that has none yet.
assigned_id_once(role, tenant_role) ==
    IF role.id = None THEN tenant_role.id ELSE role.id

\* role.id = tenant_role['id']
assigned_id(role, tenant_role) ==
    tenant_role.id

\* The for loop over roles from the k-th on: each Role's id is assigned in
\* place until one fails to unpack, which leaves the earlier assignments.
RECURSIVE resolve_from(_, _, _)
resolve_from(rs, tenant_roles, k) ==
    IF k > Len(rs)
    THEN [roles |-> rs, raised |-> FALSE]
    ELSE LET matches == matching_roles(tenant_roles, rs[k].name)
         IN  IF ~unpacks(matches)
             THEN [roles |-> rs, raised |-> TRUE]
             ELSE resolve_from(
                      [rs EXCEPT ![k].id = assigned_id(rs[k], matches[1])],
                      tenant_roles, k + 1)

----------------------------------------------------------------------------
(* map_roles_to_users *)

\* The role ids appended to those the User carries (`user.roleIds += ...`).
assigned_role_ids_appended(rs, user) ==
    LET chosen == SelectSeq(rs, LAMBDA role : In(user.email, role.users))
    IN  user.roleIds \o [k \in 1..Len(chosen) |-> chosen[k].id]

\* The role ids computed only for a User that carries none yet.
assigned_role_ids_kept(rs, user) ==
    LET chosen == SelectSeq(rs, LAMBDA role : In(user.email, role.users))
    IN  IF user.roleIds # <<>>
        THEN user.roleIds
        ELSE [k \in 1..Len(chosen) |-> chosen[k].id]

\* The condition as a conditional expression instead of a filter
\* (`[role.id if user.email in role.users else None for role in roles]`).
assigned_role_ids_or_none(rs, user) ==
    [k \in 1..Len(rs) |->
        IF In(user.email, rs[k].users) THEN rs[k].id ELSE None]

\* user.roleIds = [role.id for role in roles if user.email in role.users]
assigned_role_ids(rs, user) ==
    LET chosen == SelectSeq(rs, LAMBDA role : In(user.email, role.users))
    IN  [k \in 1..Len(chosen) |-> chosen[k].id]

map_roles_to_users(rs, us) ==
    [k \in DOMAIN us |-> [us[k] EXCEPT !.roleIds = assigned_role_ids(rs, us[k])]]

----------------------------------------------------------------------------
(* sync_users_with_tenant *)

\* The test of line 133 without its `not`.
in_snapshot_inverted(email, snapshot) ==
    email \notin {u.email : u \in snapshot}

\* user.email in [user['email'] for user in prisma_cloud_users]
in_snapshot(email, snapshot) ==
    email \in {u.email : u \in snapshot}

----------------------------------------------------------------------------
(* Steps of one tenant's iteration of main's for loop *)

\* The guard without its test: login() whatever the client's state.
login_guard_always(a) ==
    TRUE

\* `if not api.is_authenticated:` before api.login() in map_role_ids_to_role
\* and sync_users_with_tenant.
login_guard(a) ==
    ~is_authenticated(a)

Goto(t, label) ==
    /\ pc' = [pc EXCEPT ![t] = label]
    /\ exc' = exc

\* An exception propagates out of the iteration: nothing in main catches it.
Raise(t, e) ==
    /\ pc' = [pc EXCEPT ![t] = "raised"]
    /\ exc' = [exc EXCEPT ![t] = e]

Init ==
    /\ roles \in RoleLists
    /\ users \in UserLists
    /\ platform_roles \in [Tenants -> PlatformRoleLists]
    /\ remote_users \in [Tenants -> RemoteUserSets]
    /\ api = [t \in Tenants |-> NoApi]
    /\ pc = [t \in Tenants |-> "start"]
    /\ exc = [t \in Tenants |-> None]
    /\ prisma_cloud_users = [t \in Tenants |-> {}]
    /\ i = [t \in Tenants |-> 0]
    /\ log = <<>>
    /\ remote_users_before = remote_users
    /\ exit = "running"

\* api = PrismaCloudApi(url=..., access_key=..., secret_key=...)
Construct(t) ==
    /\ pc[t] = "start"
    /\ api' = [api EXCEPT ![t] = PrismaCloudApi(t)]
    /\ Goto(t, "login")
    /\ UNCHANGED << roles, users, platform_roles, remote_users_before, remote_users,
                    prisma_cloud_users, i, log, exit >>

\* api.login()
Login(t) ==
    /\ pc[t] = "login"
    /\ \E status \in LoginAnswers :
          /\ api' = [api EXCEPT ![t] = login(api[t], status)]
          /\ log' = Append(log, Call(api[t], "login", NoUser, TRUE, status))
          /\ IF raise_for_status(status)
             THEN Raise(t, "HTTPStatusError")
             ELSE Goto(t, "map_role_ids_to_role")
    /\ UNCHANGED << roles, users, platform_roles, remote_users_before, remote_users,
                    prisma_cloud_users, i, exit >>

\* roles_with_ids = map_role_ids_to_role(api, roles)
MapRoleIdsToRole(t) ==
    /\ pc[t] = "map_role_ids_to_role"
    /\ \E s1 \in LoginAnswers :
          LET relogin == login_guard(api[t])
              a1 == IF relogin THEN login(api[t], s1) ELSE api[t]
              log1 == IF relogin
                      THEN Append(log, Call(api[t], "login", NoUser, TRUE, s1))
                      ELSE log
          IN  /\ api' = [api EXCEPT ![t] = a1]
              /\ IF relogin /\ raise_for_status(s1)
                 THEN /\ log' = log1
                      /\ roles' = roles
                      /\ Raise(t, "HTTPStatusError")
                 ELSE \E s2 \in Answers(a1) :
                         LET r == resolve_from(roles, platform_roles[t], 1)
                         IN  /\ log' = Append(log1,
                                    Call(a1, "get_role_names", NoUser, TRUE, s2))
                             /\ IF raise_for_status(s2)
                                THEN /\ roles' = roles
                                     /\ Raise(t, "HTTPStatusError")
                                ELSE /\ roles' = r.roles
                                     /\ IF r.raised
                                        THEN Raise(t, "ValueError")
                                        ELSE Goto(t, "map_roles_to_users")
    /\ UNCHANGED << users, platform_roles, remote_users_before, remote_users, prisma_cloud_users,
                    i, exit >>

\* users_with_roles = map_roles_to_users(roles_with_ids, users)
MapRolesToUsers(t) ==
    /\ pc[t] = "map_roles_to_users"
    /\ users' = map_roles_to_users(roles, users)
    /\ Goto(t, "sync_users_with_tenant")
    /\ UNCHANGED << roles, platform_roles, remote_users_before, remote_users, api,
                    prisma_cloud_users, i, log, exit >>

\* sync_users_with_tenant up to its for loop: the guarded login and
\* prisma_cloud_users = api.get_users_v3()
SyncFetch(t) ==
    /\ pc[t] = "sync_users_with_tenant"
    /\ \E s1 \in LoginAnswers :
          LET relogin == login_guard(api[t])
              a1 == IF relogin THEN login(api[t], s1) ELSE api[t]
              log1 == IF relogin
                      THEN Append(log, Call(api[t], "login", NoUser, TRUE, s1))
                      ELSE log
          IN  /\ api' = [api EXCEPT ![t] = a1]
              /\ IF relogin /\ raise_for_status(s1)
                 THEN /\ log' = log1
                      /\ prisma_cloud_users' = prisma_cloud_users
                      /\ Raise(t, "HTTPStatusError")
                 ELSE \E s2 \in Answers(a1) :
                         /\ log' = Append(log1,
                                Call(a1, "get_users_v3", NoUser, TRUE, s2))
                         /\ IF raise_for_status(s2)
                            THEN /\ prisma_cloud_users' = prisma_cloud_users
                                 /\ Raise(t, "HTTPStatusError")
                            ELSE /\ prisma_cloud_users' =
                                      [prisma_cloud_users EXCEPT ![t] =
                                          {remote_users[t][e] :
                                              e \in DOMAIN remote_users[t]}]
                                 /\ Goto(t, "for_user")
    /\ i' = [i EXCEPT ![t] = 0]
    /\ UNCHANGED << roles, users, platform_roles, remote_users_before, remote_users, exit >>

\* The list fetched again for every user: what the tenant holds now.
refetched_users(t) ==
    {remote_users[t][e] : e \in DOMAIN remote_users[t]}

\* The list the test of line 133 reads: the local prisma_cloud_users, fetched
\* once before the loop.
fetched_users(t) ==
    prisma_cloud_users[t]

\* create_user_v3 without its response.raise_for_status().
create_raises_index_only(user, status) ==
    user.roleIds = <<>>

\* create_user_v3 raises: IndexError at user.roleIds[0] before any request,
\* or the HTTP error of the answer.
create_raises(user, status) ==
    user.roleIds = <<>> \/ raise_for_status(status)

\* api.create_user_v3(user) on tenant t's client, answered with `status`.
create_user_v3(t, user, status) ==
    /\ log' = Append(log,
           IF user.roleIds = <<>>
           THEN Call(api[t], "create_user_v3", user, FALSE, 0)
           ELSE Call(api[t], "create_user_v3", user, TRUE, status))
    /\ remote_users' =
           IF create_raises(user, status)
           THEN remote_users
           ELSE [remote_users EXCEPT ![t] =
                    store_user(@, user.email, create_payload(user))]

\* api.update_user_v2(user) on tenant t's client, answered with `status`.
update_user_v2(t, user, status) ==
    /\ log' = Append(log, Call(api[t], "update_user_v2", user, TRUE, status))
    /\ remote_users' =
           IF raise_for_status(status)
           THEN remote_users
           ELSE [remote_users EXCEPT ![t] =
                    store_user(@, user.email, update_payload(user))]

\* One iteration of `for user in users`: create_user_v3 when the email is not
\* in the fetched list, update_user_v2 otherwise.
SyncUser(t) ==
    /\ pc[t] = "for_user"
    /\ i[t] < Len(users)
    /\ i' = [i EXCEPT ![t] = i[t] + 1]
    /\ LET user == users[i[t] + 1]
       IN  \E status \in Answers(api[t]) :
              IF ~in_snapshot(user.email, fetched_users(t))
              THEN /\ create_user_v3(t, user, status)
                   /\ IF create_raises(user, status)
                      THEN Raise(t, IF user.roleIds = <<>>
                                    THEN "IndexError"
                                    ELSE "HTTPStatusError")
                      ELSE Goto(t, "for_user")
              ELSE /\ update_user_v2(t, user, status)
                   /\ IF raise_for_status(status)
                      THEN Raise(t, "HTTPStatusError")
                      ELSE Goto(t, "for_user")
    /\ UNCHANGED << roles, users, platform_roles, remote_users_before, api, prisma_cloud_users,
                    exit >>

\* The loop is exhausted: print("Sync for tenant ... done") and return.
SyncDone(t) ==
    /\ pc[t] = "for_user"
    /\ i[t] = Len(users)
    /\ Goto(t, "done")
    /\ UNCHANGED << roles, users, platform_roles, remote_users_before, remote_users, api,
                    prisma_cloud_users, i, log, exit >>

----------------------------------------------------------------------------
(* main: the tenants one after the other *)

\* The body of the loop in a try/except that goes on to the next tenant.
iteration_over_or_raised(p) ==
    p \in {"done", "raised"}

\* `for tenant in tenants` takes the next tenant when the body has run to
\* its end for the one before.
iteration_over(p) ==
    p = "done"

\* The loop bodies started without waiting for the one before (a pool of
\* workers mapped over tenants).
Turn_unordered(t) ==
    exit = "running"

\* Tenant t is the one main's for loop is at.
Turn(t) ==
    /\ exit = "running"
    /\ \A s \in 1..(t - 1) : iteration_over(pc[s])

MainConstruct(t) == Turn(t) /\ Construct(t)

MainLogin(t) == Turn(t) /\ Login(t)

MainMapRoleIdsToRole(t) == Turn(t) /\ MapRoleIdsToRole(t)

MainMapRolesToUsers(t) == Turn(t) /\ MapRolesToUsers(t)

MainSyncFetch(t) == Turn(t) /\ SyncFetch(t)

MainSyncUser(t) == Turn(t) /\ SyncUser(t)

MainSyncDone(t) == Turn(t) /\ SyncDone(t)

\* The for loop is exhausted: main returns and the process exits with 0.
MainReturn ==
    /\ exit = "running"
    /\ \A t \in Tenants : iteration_over(pc[t])
    /\ exit' = "0"
    /\ UNCHANGED << roles, users, platform_roles, remote_users_before, remote_users, api, pc, exc,
                    prisma_cloud_users, i, log >>

\* An exception left main: the interpreter prints the traceback and the
\* process exits with 1.
MainUncaught ==
    /\ exit = "running"
    /\ \E t \in Tenants : pc[t] = "raised"
    /\ exit' = "1"
    /\ UNCHANGED << roles, users, platform_roles, remote_users_before, remote_users, api, pc, exc,
                    prisma_cloud_users, i, log >>

Next ==
    \/ \E t \in Tenants :
          \/ MainConstruct(t)
          \/ MainLogin(t)
          \/ MainMapRoleIdsToRole(t)
          \/ MainMapRolesToUsers(t)
          \/ MainSyncFetch(t)
          \/ MainSyncUser(t)
          \/ MainSyncDone(t)
    \/ MainReturn
    \/ MainUncaught

Spec ==
    Init /\ [][Next]_vars

----------------------------------------------------------------------------
(* The tenants' iterations interleaved: a caller that runs the body of      *)
(* main's for loop for several tenants at once over the same roles and      *)
(* users lists.  An exception ends the iteration it was raised in.          *)

\* The tenants whose iterations are interleaved.
ParTenants ==
    {1, 2}

\* The inputs of Init with one or two declared Users, the tenants that take
\* no part being fixed.
InitPar ==
    /\ Init
    /\ Len(users) <= 2
    /\ \A t \in Tenants \ ParTenants :
          /\ platform_roles[t] = << [name |-> "Admin", id |-> "r6"] >>
          /\ remote_users[t] = NoRemoteUsers

NextPar ==
    \E t \in ParTenants :
        \/ Construct(t)
        \/ Login(t)
        \/ MapRoleIdsToRole(t)
        \/ MapRolesToUsers(t)
        \/ SyncFetch(t)
        \/ SyncUser(t)
        \/ SyncDone(t)

SpecPar ==
    InitPar /\ [][NextPar]_vars

----------------------------------------------------------------------------
(* A client on its own: a caller that constructs the first tenant's client *)
(* and calls its methods in any order, catching what they raise.           *)

\* The caller makes at most this many method calls.
MaxCalls == 4

\* The Users the caller passes: with no, one and two role ids.
CallerUsers ==
    { User(A),
      [User(A) EXCEPT !.roleIds = <<"r1">>],
      [User(A) EXCEPT !.roleIds = <<"r2", "r1">>] }

InitClient ==
    /\ Init
    /\ roles = << Role("Admin", <<A>>) >>
    /\ users = << User(B) >>
    /\ \A t \in Tenants :
          /\ platform_roles[t] = << [name |-> "Admin", id |-> "r1"],
                                     [name |-> "Dev", id |-> "r2"] >>
          /\ t # 1 => remote_users[t] = NoRemoteUsers

ClientConstruct ==
    Construct(1)

ClientLogin ==
    /\ api[1] # NoApi
    /\ Len(log) < MaxCalls
    /\ \E status \in LoginAnswers :
          /\ api' = [api EXCEPT ![1] = login(api[1], status)]
          /\ log' = Append(log, Call(api[1], "login", NoUser, TRUE, status))
    /\ UNCHANGED << roles, users, platform_roles, remote_users_before, remote_users, pc, exc,
                    prisma_cloud_users, i, exit >>

ClientCreateUser ==
    /\ api[1] # NoApi
    /\ Len(log) < MaxCalls
    /\ \E user \in CallerUsers, status \in Answers(api[1]) :
          create_user_v3(1, user, status)
    /\ UNCHANGED << roles, users, platform_roles, remote_users_before, api, pc, exc,
                    prisma_cloud_users, i, exit >>

ClientUpdateUser ==
    /\ api[1] # NoApi
    /\ Len(log) < MaxCalls
    /\ \E user \in CallerUsers, status \in Answers(api[1]) :
          update_user_v2(1, user, status)
    /\ UNCHANGED << roles, users, platform_roles, remote_users_before, api, pc, exc,
                    prisma_cloud_users, i, exit >>

NextClient ==
    \/ ClientConstruct
    \/ ClientLogin
    \/ ClientCreateUser
    \/ ClientUpdateUser

SpecClient ==
    InitClient /\ [][NextClient]_vars

----------------------------------------------------------------------------
(* main's loop with a caller that may leave out api.login(): it passes the  *)
(* freshly constructed client to map_role_ids_to_role, or straight to       *)
(* sync_users_with_tenant.                                                  *)

\* The client goes to map_role_ids_to_role without a login() before.
CallerSkipsLogin(t) ==
    /\ Turn(t)
    /\ pc[t] = "login"
    /\ Goto(t, "map_role_ids_to_role")
    /\ UNCHANGED << roles, users, platform_roles, remote_users_before,
                    remote_users, api, prisma_cloud_users, i, log, exit >>

\* The client goes to sync_users_with_tenant without a login() before.
CallerSyncsOnly(t) ==
    /\ Turn(t)
    /\ pc[t] = "login"
    /\ Goto(t, "sync_users_with_tenant")
    /\ UNCHANGED << roles, users, platform_roles, remote_users_before,
                    remote_users, api, prisma_cloud_users, i, log, exit >>

NextReuse ==
    \/ \E t \in Tenants :
          \/ MainConstruct(t)
          \/ MainLogin(t)
          \/ CallerSkipsLogin(t)
          \/ CallerSyncsOnly(t)
          \/ MainMapRoleIdsToRole(t)
          \/ MainMapRolesToUsers(t)
          \/ MainSyncFetch(t)
          \/ MainSyncUser(t)
          \/ MainSyncDone(t)
    \/ MainReturn
    \/ MainUncaught

SpecReuse ==
    Init /\ [][NextReuse]_vars

----------------------------------------------------------------------------
(* Vocabulary of the properties *)

UserOps == {"create_user_v3", "update_user_v2"}

\* The create_user_v3 / update_user_v2 invocations on tenant t, in order.
UserCalls(t) ==
    SelectSeq(log, LAMBDA c : c.tenant = t /\ c.op \in UserOps)

\* The places of the platform roles of tenant t that are named `name`.
Named(t, name) ==
    {m \in DOMAIN platform_roles[t] : platform_roles[t][m].name = name}

\* The id tenant t gives the role named `name` (the name is there once).
PlatformId(t, name) ==
    platform_roles[t][CHOOSE m \in Named(t, name) : TRUE].id

\* The places of the declared Roles whose users contain the email.
RolesOf(email) ==
    {j \in DOMAIN roles : \E k \in DOMAIN roles[j].users : roles[j].users[k] = email}

\* The p-th smallest element of a set of numbers.
Nth(S, p) ==
    CHOOSE j \in S : Cardinality({x \in S : x <= j}) = p

\* The roleIds the declaration gives the email in tenant t.
DeclaredRoleIds(t, email) ==
    [p \in 1..Cardinality(RolesOf(email)) |->
        PlatformId(t, roles[Nth(RolesOf(email), p)].name)]

\* An API method invocation that raised.
RaisedCall(c) ==
    ~c.sent \/ c.status >= 400

Failed(t) ==
    \/ exc[t] # None
    \/ \E k \in DOMAIN log : log[k].tenant = t /\ RaisedCall(log[k])

LoggedIn(t) ==
    \E k \in DOMAIN log :
        log[k].tenant = t /\ log[k].op = "login" /\ log[k].status = 200

----------------------------------------------------------------------------
(* Properties *)

\* C1: once sync_users_with_tenant has returned for a tenant, every declared
\* User's email is a remote user of that tenant, and its record carries the
\* roleIds of the declaration resolved against that tenant.
C1_RemoteMatchesDeclaration ==
    \A t \in Tenants :
        pc[t] = "done" =>
            \A k \in DOMAIN users :
                /\ users[k].email \in DOMAIN remote_users[t]
                /\ remote_users[t][users[k].email].roleIds
                       = DeclaredRoleIds(t, users[k].email)

\* C1 witness: both tenants are synchronised, with different role ids, and a
\* record of the second carries role ids.
C1_Witness ==
    /\ \A t \in Tenants : pc[t] = "done"
    /\ platform_roles[1] # platform_roles[2]
    /\ \E e \in DOMAIN remote_users[2] :
          /\ \E k \in DOMAIN users : users[k].email = e
          /\ remote_users[2][e].roleIds # <<>>
          /\ e \in DOMAIN remote_users[1]
          /\ remote_users[1][e].roleIds # remote_users[2][e].roleIds

\* C2: every User the loop has taken got exactly one invocation, update_user_v2
\* if its email is in the fetched list and create_user_v3 if not; when the
\* function returns the loop has taken every declared User.
C2_CreateUpdatePartition ==
    \A t \in Tenants :
        LET calls == UserCalls(t)
        IN  /\ Len(calls) = i[t]
            /\ \A k \in 1..Len(calls) :
                  /\ calls[k].user.email = users[k].email
                  /\ calls[k].op =
                        IF \E u \in prisma_cloud_users[t] : u.email = users[k].email
                        THEN "update_user_v2"
                        ELSE "create_user_v3"
            /\ pc[t] = "done" => i[t] = Len(users)

\* C2 witness: a tenant's sync returned after one update and one create.
C2_Witness ==
    \E t \in Tenants :
        /\ pc[t] = "done"
        /\ \E k \in 1..Len(UserCalls(t)) : UserCalls(t)[k].op = "update_user_v2"
        /\ \E k \in 1..Len(UserCalls(t)) : UserCalls(t)[k].op = "create_user_v3"

\* C3: when the process has ended, every tenant declared after one whose
\* iteration failed has still been logged into.
C3_LaterTenantsStillProcessed ==
    exit # "running" =>
        \A t \in Tenants :
            (\E s \in 1..(t - 1) : Failed(s)) =>
                \E k \in DOMAIN log : log[k].tenant = t /\ log[k].op = "login"

\* C4: every role id of a create_user_v3 / update_user_v2 invocation on a
\* tenant is an id that tenant's own role list gives a declared Role name.
C4_TenantIsolation ==
    \A k \in DOMAIN log :
        log[k].op \in UserOps =>
            \A p \in DOMAIN log[k].user.roleIds :
                \E j \in DOMAIN roles :
                    \E m \in Named(log[k].tenant, roles[j].name) :
                        log[k].user.roleIds[p] = platform_roles[log[k].tenant][m].id

\* C4 witness: the second tenant received a call with role ids after the
\* first tenant received one for the same user with other role ids.
C4_Witness ==
    \E k1, k2 \in DOMAIN log :
        /\ k1 < k2
        /\ log[k1].tenant = 1 /\ log[k2].tenant = 2
        /\ log[k1].op \in UserOps /\ log[k2].op \in UserOps
        /\ log[k1].user.email = log[k2].user.email
        /\ log[k2].user.roleIds # <<>>
        /\ log[k1].user.roleIds # log[k2].user.roleIds

\* The call at place k of the history was made with no successful
\* get_role_names of another tenant since the last one of its own tenant.
Undisturbed(k) ==
    \E q \in 1..(k - 1) :
        /\ log[q].tenant = log[k].tenant
        /\ log[q].op = "get_role_names"
        /\ \A x \in (q + 1)..(k - 1) :
              ~(/\ log[x].op = "get_role_names"
                /\ log[x].tenant # log[k].tenant
                /\ log[x].status = 200)

C6_RoleResolution ==
    \A t \in Tenants :
        /\ pc[t] = "map_roles_to_users" =>
              \A j \in DOMAIN roles :
                  /\ Cardinality(Named(t, roles[j].name)) = 1
                  /\ \A m \in Named(t, roles[j].name) :
                        roles[j].id = platform_roles[t][m].id
        /\ (\E j \in DOMAIN roles : Cardinality(Named(t, roles[j].name)) # 1) =>
              /\ pc[t] \in {"start", "login", "map_role_ids_to_role", "raised"}
              /\ pc[t] = "raised" => exc[t] \in {"HTTPStatusError", "ValueError"}
        /\ exc[t] = "ValueError" =>
              \E j \in DOMAIN roles : Cardinality(Named(t, roles[j].name)) # 1

\* C6 witness: resolution returned for the first tenant and raised on a
\* repeated name for the second.
C6_Witness ==
    /\ pc[1] = "done"
    /\ exc[2] = "ValueError"
    /\ \E j \in DOMAIN roles : Cardinality(Named(2, roles[j].name)) > 1

\* C7: when map_roles_to_users has returned, every User's roleIds is the ids
\* of the Roles whose users contain its email, in declaration order, and
\* nothing else.
C7_AssignmentCorrectness ==
    \A t \in Tenants :
        pc[t] = "sync_users_with_tenant" =>
            \A k \in DOMAIN users :
                LET mine == RolesOf(users[k].email)
                IN  /\ Len(users[k].roleIds) = Cardinality(mine)
                    /\ \A p \in 1..Cardinality(mine) :
                          users[k].roleIds[p] = roles[Nth(mine, p)].id

\* C7 witness: the mapping ran for the second tenant on Users that carried
\* the first tenant's role ids.
C7_Witness ==
    /\ pc[1] = "done"
    /\ pc[2] = "sync_users_with_tenant"
    /\ \E k \in DOMAIN users, c \in DOMAIN log :
          /\ log[c].tenant = 1
          /\ log[c].op \in UserOps
          /\ log[c].user.email = users[k].email
          /\ Len(log[c].user.roleIds) > 1
          /\ log[c].user.roleIds # users[k].roleIds

\* C8: the process never exits with 0 when a step of some tenant failed; once
\* it has exited after a failure its exit status is 1.
C8_FailureExit ==
    (exit # "running" /\ \E t \in Tenants : Failed(t)) => exit = "1"

\* C8 witness: the process exited with 1 after a failure in the second
\* tenant, the first having been synchronised.
C8_Witness ==
    /\ exit = "1"
    /\ pc[1] = "done"
    /\ Failed(2)

\* C9: a client is authenticated exactly when a login() on it succeeded, and
\* an authenticated client stays authenticated.
C9_Authenticated ==
    /\ [](\A t \in Tenants : is_authenticated(api[t]) <=> LoggedIn(t))
    /\ [][\A t \in Tenants :
            is_authenticated(api[t]) => is_authenticated(api'[t])]_vars

\* C9 witness: on one client a login failed, a later one succeeded, one
\* after that failed again, and the client is authenticated.
C9_Witness ==
    /\ is_authenticated(api[1])
    /\ \E k1, k2, k3 \in DOMAIN log :
          /\ k1 < k2 /\ k2 < k3
          /\ log[k1].op = "login" /\ log[k1].status = 401 /\ ~log[k1].auth
          /\ log[k2].op = "login" /\ log[k2].status = 200 /\ ~log[k2].auth
          /\ log[k3].op = "login" /\ log[k3].status = 401 /\ log[k3].auth

CallsOf(t) ==
    SelectSeq(log, LAMBDA c : c.tenant = t)

\* The place of an API method in a tenant's iteration.
Rank(op) ==
    CASE op = "login" -> 1
      [] op = "get_role_names" -> 2
      [] op = "get_users_v3" -> 3
      [] OTHER -> 4

\* C11: the API calls of one tenant come in the order login, get_role_names,
\* get_users_v3, create/update calls, each after the one before has
\* succeeded, and every call but login is made by an authenticated client.
C11_CallOrder ==
    \A t \in Tenants :
        LET mine == CallsOf(t)
        IN  \A k \in 1..Len(mine) :
               /\ k = 1 => mine[k].op = "login"
               /\ k > 1 =>
                     /\ mine[k - 1].status = 200
                     /\ \/ Rank(mine[k].op) = Rank(mine[k - 1].op) + 1
                        \/ Rank(mine[k].op) = 4 /\ Rank(mine[k - 1].op) = 4
               /\ mine[k].op # "login" => mine[k].auth

\* C11 witness: the second tenant got login, get_role_names, get_users_v3, an
\* update and a create, in that order.
C11_Witness ==
    /\ Len(CallsOf(2)) = 5
    /\ CallsOf(2)[4].op = "update_user_v2"
    /\ CallsOf(2)[5].op = "create_user_v3"
    /\ CallsOf(2)[5].status = 200

\* The record a tenant holds after it accepted the call.
Written(c) ==
    IF c.op = "create_user_v3"
    THEN [email |-> c.user.email, firstName |-> c.user.firstName,
          lastName |-> c.user.lastName, enabled |-> c.user.enabled,
          roleIds |-> c.user.roleIds, defaultRoleId |-> c.user.roleIds[1],
          timeZone |-> "America/Toronto"]
    ELSE c.user

\* C12: a create_user_v3 / update_user_v2 call that raised is the last such
\* call of its tenant (no call for a later User, no second attempt), the
\* tenant's iteration has ended with the exception, the records written by
\* the calls before it are as those calls wrote them, and the failed call
\* itself changed nothing.
C12_FailedCallAborts ==
    \A t \in Tenants :
        LET calls == UserCalls(t)
        IN  \A k \in 1..Len(calls) :
               RaisedCall(calls[k]) =>
                  /\ k = Len(calls)
                  /\ pc[t] = "raised"
                  /\ \A j \in 1..(k - 1) :
                        (\A x \in (j + 1)..(k - 1) :
                            calls[x].user.email # calls[j].user.email) =>
                           /\ calls[j].user.email \in DOMAIN remote_users[t]
                           /\ remote_users[t][calls[j].user.email]
                                  = Written(calls[j])
                  /\ (\A j \in 1..(k - 1) :
                         calls[j].user.email # calls[k].user.email) =>
                        LET e == calls[k].user.email
                        IN  /\ e \in DOMAIN remote_users[t]
                                <=> e \in DOMAIN remote_users_before[t]
                            /\ e \in DOMAIN remote_users[t] =>
                                  remote_users[t][e] = remote_users_before[t][e]

\* C12 witness: of three declared Users the first was written, the call for
\* the second was refused, the third got no call, and the process has ended.
C12_Witness ==
    \E t \in Tenants :
        /\ Len(users) = 3
        /\ Len(UserCalls(t)) = 2
        /\ UserCalls(t)[1].status = 200
        /\ UserCalls(t)[2].sent /\ UserCalls(t)[2].status = 500
        /\ exit = "1"

\* C13: a tenant whose role list has some declared Role name not exactly
\* once gets no get_users_v3, create_user_v3 or update_user_v2 call, and its
\* user records stay as they were before the run.
C13_ResolutionFailureFrame ==
    \A t \in Tenants :
        (\E j \in DOMAIN roles : Cardinality(Named(t, roles[j].name)) # 1) =>
            /\ \A k \in DOMAIN log :
                  log[k].tenant = t =>
                      log[k].op \notin UserOps \cup {"get_users_v3"}
            /\ remote_users[t] = remote_users_before[t]

\* C13 witness: resolution raised for the second tenant, which holds user
\* records, after the first declared Role had been given the second tenant's
\* id in place of the first tenant's.
C13_Witness ==
    /\ pc[1] = "done"
    /\ exc[2] = "ValueError"
    /\ Len(roles) = 2
    /\ Cardinality(Named(2, roles[1].name)) = 1
    /\ roles[1].id = PlatformId(2, roles[1].name)
    /\ roles[1].id # PlatformId(1, roles[1].name)
    /\ DOMAIN remote_users[2] # {}

\* C14: a tenant's user list is fetched at most once, before its first
\* create/update call; the fetched list stays what the tenant held before
\* the run, and every call is a create or an update by that list, whatever
\* the loop has created since.
C14_SingleSnapshot ==
    \A t \in Tenants :
        LET fetches == {k \in DOMAIN log :
                           log[k].tenant = t /\ log[k].op = "get_users_v3"}
        IN  /\ Cardinality(fetches) <= 1
            /\ \A k \in DOMAIN log :
                  (log[k].tenant = t /\ log[k].op \in UserOps) =>
                      /\ \E f \in fetches : f < k /\ log[f].status = 200
                      /\ log[k].op =
                            IF log[k].user.email \in DOMAIN remote_users_before[t]
                            THEN "update_user_v2"
                            ELSE "create_user_v3"
            /\ (\E f \in fetches : log[f].status = 200) =>
                  prisma_cloud_users[t] =
                      {remote_users_before[t][e] :
                          e \in DOMAIN remote_users_before[t]}

\* C14 witness: a second create_user_v3 call for an email whose first
\* create_user_v3 call the tenant had accepted.
C14_Witness ==
    \E t \in Tenants :
        \E k \in 2..Len(UserCalls(t)) :
            \E j \in 1..(k - 1) :
                /\ UserCalls(t)[j].op = "create_user_v3"
                /\ UserCalls(t)[j].status = 200
                /\ UserCalls(t)[k].op = "create_user_v3"
                /\ UserCalls(t)[k].user.email = UserCalls(t)[j].user.email
                /\ UserCalls(t)[k].user.email \in DOMAIN remote_users[t]

\* C15: a tenant's client sends at most one login request; it is not yet
\* authenticated when it sends it; and the login is the first API call on the
\* client, whether main called login() or a function was handed the fresh
\* client.
C15_LoginOnce ==
    \A t \in Tenants :
        LET mine == CallsOf(t)
            logins == {k \in 1..Len(mine) : mine[k].op = "login"}
        IN  /\ Cardinality(logins) <= 1
            /\ \A k \in logins : k = 1 /\ ~mine[k].auth
            /\ Len(mine) >= 1 => 1 \in logins

\* C15 witness: the first tenant was logged into once and its roles and users
\* were fetched; the second tenant's client was handed unauthenticated to
\* sync_users_with_tenant, which logged in and then fetched the users.
C15_Witness ==
    /\ pc[1] = "done"
    /\ Len(CallsOf(1)) >= 3
    /\ CallsOf(1)[2].op = "get_role_names"
    /\ CallsOf(1)[3].op = "get_users_v3"
    /\ Len(CallsOf(2)) >= 2
    /\ CallsOf(2)[1].op = "login" /\ CallsOf(2)[1].status = 200
    /\ CallsOf(2)[2].op = "get_users_v3" /\ CallsOf(2)[2].status = 200

\* C16: a User whose email is in no Role's users leaves map_roles_to_users
\* with empty roleIds; its create_user_v3 raises IndexError before any
\* request, ends the tenant's iteration and leaves the tenant without a
\* record of the email; its update_user_v2 is sent with the empty roleIds.
C16_NoRoles ==
    \A t \in Tenants :
        /\ pc[t] = "sync_users_with_tenant" =>
              \A j \in DOMAIN users :
                  RolesOf(users[j].email) = {} => users[j].roleIds = <<>>
        /\ LET calls == UserCalls(t)
           IN  \A k \in 1..Len(calls) :
                  RolesOf(calls[k].user.email) = {} =>
                     /\ calls[k].user.roleIds = <<>>
                     /\ calls[k].op = "create_user_v3" =>
                           /\ ~calls[k].sent
                           /\ k = Len(calls)
                           /\ exc[t] = "IndexError"
                           /\ calls[k].user.email \notin DOMAIN remote_users[t]
                     /\ calls[k].op = "update_user_v2" =>
                           /\ calls[k].sent
                           /\ calls[k].status = 200 =>
                                 remote_users[t][calls[k].user.email].roleIds
                                     = <<>>

\* C16 witness: of two Users without a Role the one the tenant held was
\* updated with empty roleIds and the create of the other raised IndexError.
C16_Witness ==
    \E t \in Tenants :
        /\ Len(UserCalls(t)) = 2
        /\ UserCalls(t)[1].op = "update_user_v2"
        /\ UserCalls(t)[1].status = 200
        /\ UserCalls(t)[1].user.roleIds = <<>>
        /\ remote_users_before[t][UserCalls(t)[1].user.email].roleIds # <<>>
        /\ UserCalls(t)[2].op = "create_user_v3"
        /\ exc[t] = "IndexError"

\* C17: the API calls come tenant after tenant in declaration order, none
\* for a tenant (nor its client's construction) before the iteration of every
\* tenant declared before it has run to its end, and a tenant's create/update
\* calls are for the declared Users in declaration order.
C17_DeclarationOrder ==
    /\ \A k, l \in DOMAIN log : k < l => log[k].tenant <= log[l].tenant
    /\ \A t \in Tenants :
          pc[t] # "start" => \A s \in 1..(t - 1) : pc[s] = "done"
    /\ \A t \in Tenants :
          /\ Len(UserCalls(t)) <= Len(users)
          /\ \A k \in 1..Len(UserCalls(t)) :
                UserCalls(t)[k].user.email = users[k].email

\* C17 witness: three declared Users got their calls in the first tenant and
\* then in the second.
C17_Witness ==
    /\ Len(UserCalls(1)) = 3
    /\ Len(UserCalls(2)) = 3
    /\ UserCalls(2)[1].user.email # UserCalls(2)[2].user.email

\* C18: every create_user_v3/update_user_v2 call is for the email of a declared
\* User, the client has no operation beyond its five methods (none deletes, so
\* no remote record disappears), and in every tenant an email absent from the
\* declaration has a record exactly when it had one before the run, the same
\* one.
C18_UndeclaredUntouched ==
    /\ \A k \in DOMAIN log :
          /\ log[k].op \in {"login", "get_role_names", "get_users_v3"} \cup UserOps
          /\ log[k].op \in UserOps =>
                \E j \in DOMAIN users : users[j].email = log[k].user.email
    /\ \A t \in Tenants :
          /\ DOMAIN remote_users_before[t] \subseteq DOMAIN remote_users[t]
          /\ \A e \in {A, B, Z} :
                (\A j \in DOMAIN users : users[j].email # e) =>
                   /\ e \in DOMAIN remote_users[t] <=>
                         e \in DOMAIN remote_users_before[t]
                   /\ e \in DOMAIN remote_users[t] =>
                         remote_users[t][e] = remote_users_before[t][e]

\* C18 witness: a tenant holding the undeclared Z was synchronised to the end,
\* with one declared User updated and another created by accepted calls.
C18_Witness ==
    \E t \in Tenants :
       /\ pc[t] = "done"
       /\ Z \in DOMAIN remote_users_before[t]
       /\ \A j \in DOMAIN users : users[j].email # Z
       /\ B \in DOMAIN remote_users[t] \ DOMAIN remote_users_before[t]
       /\ remote_users[t][A] # remote_users_before[t][A]

====
